---- MODULE Spec2Model ----
(***************************************************************************)
(* LC-3 virtual machine (LC3.c): the register file, the 65536-word memory  *)
(* with its memory-mapped keyboard registers, the image loader and the     *)
(* fetch-decode-execute loop of main, one action per instruction.          *)
(***************************************************************************)
EXTENDS Integers, Sequences, FiniteSets, TLC

VARIABLES
    memory,   \* uint16_t memory[MEMORY_MAX]: the nonzero cells, address -> word
    reg,      \* uint16_t reg[R_COUNT]
    running,  \* int running (local of main)
    instr,    \* uint16_t instr (local of main): the word fetched last
    term,     \* how the process ended: "none", "abort" (abort()), "segv"
    input,    \* the bytes stdin still has to deliver
    output,   \* the bytes written to stdout so far
    argv,     \* the image files named on the command line
    steps,    \* number of loop iterations done
    call      \* argument/result record of a helper exercised on its own

vars == <<memory, reg, running, instr, term, input, output, argv, steps, call>>

(***************************************************************************)
(* Bounds of the model.                                                    *)
(***************************************************************************)
MaxSteps == 4

(***************************************************************************)
(* Program constants.                                                      *)
(***************************************************************************)
MEMORY_MAX == 65536
MR_KBSR == 65024   \* 0xFE00
MR_KBDR == 65026   \* 0xFE02

TRAP_GETC == 32
TRAP_OUT == 33
TRAP_PUTS == 34
TRAP_IN == 35
TRAP_PUTSP == 36
TRAP_HALT == 37

R_R0 == 0
R_R7 == 7
R_PC == 8
R_COND == 9
R_COUNT == 10

FL_POS == 1
FL_ZRO == 2
FL_NEG == 4

OP_BR == 0
OP_ADD == 1
OP_LD == 2
OP_ST == 3
OP_JSR == 4
OP_AND == 5
OP_LDR == 6
OP_STR == 7
OP_RTI == 8
OP_NOT == 9
OP_LDI == 10
OP_STI == 11
OP_JMP == 12
OP_RES == 13
OP_LEA == 14
OP_TRAP == 15

PC_START == 12288  \* 0x3000
EOF == -1

(***************************************************************************)
(* C integer operators on non-negative integers.                           *)
(***************************************************************************)
RECURSIVE BitAnd(_, _)
BitAnd(a, b) ==
    IF a = 0 \/ b = 0 THEN 0
    ELSE (a % 2) * (b % 2) + 2 * BitAnd(a \div 2, b \div 2)

RECURSIVE BitOr(_, _)
BitOr(a, b) ==
    IF a = 0 THEN b
    ELSE IF b = 0 THEN a
    ELSE (IF a % 2 = 1 \/ b % 2 = 1 THEN 1 ELSE 0) + 2 * BitOr(a \div 2, b \div 2)

Shr(x, n) == x \div (2 ^ n)
Shl(x, n) == x * (2 ^ n)

\* conversion of an int to uint16_t
U16(x) == x % 65536

\* ~x on a uint16_t, stored back into a uint16_t
Not16(x) == 65535 - x

\* conversion of an int holding a byte or EOF to (signed) char
ToChar(c) == LET b == c % 256 IN IF b >= 128 THEN b - 256 ELSE b

(***************************************************************************)
(* sign_extend, swap16, update_flags.                                      *)
(***************************************************************************)
\* The low 16 bits of x << n for a 16-bit x and n in 0..16: what a store into
\* a uint16_t keeps of the int the shift yields.  (0xFFFF << 16 does not fit
\* an int; the compilers this program builds with shift the bit pattern, so
\* the low 16 bits are 0.)
ShlLow16(x, n) == (x % (2 ^ (16 - n))) * (2 ^ n)

sign_extend_offbyone(x, bit_count) ==
    IF BitAnd(Shr(x, bit_count), 1) # 0
    THEN BitOr(x, ShlLow16(65535, bit_count))
    ELSE x

\* x |= (0xFFFF << bit_count) on a uint16_t x
sign_extend(x, bit_count) ==
    IF BitAnd(Shr(x, bit_count - 1), 1) # 0
    THEN BitOr(x, ShlLow16(65535, bit_count))
    ELSE x

swap16(x) == U16(BitOr(Shl(x, 8), Shr(x, 8)))

update_flags_zero_unset(rg, r) ==
    IF rg[r] = 0 THEN [rg EXCEPT ![R_COND] = 0]
    ELSE IF Shr(rg[r], 15) # 0 THEN [rg EXCEPT ![R_COND] = FL_NEG]
    ELSE [rg EXCEPT ![R_COND] = FL_POS]

update_flags(rg, r) ==
    IF rg[r] = 0 THEN [rg EXCEPT ![R_COND] = FL_ZRO]
    ELSE IF Shr(rg[r], 15) # 0 THEN [rg EXCEPT ![R_COND] = FL_NEG]
    ELSE [rg EXCEPT ![R_COND] = FL_POS]

(***************************************************************************)
(* Memory.  memory[] is a static array, so a cell never written holds 0;   *)
(* the variable keeps the nonzero cells only.                              *)
(***************************************************************************)
MemGet(m, a) == IF a \in DOMAIN m THEN m[a] ELSE 0

mem_write(m, address, val) ==
    IF val = 0
    THEN [x \in (DOMAIN m) \ {address} |-> m[x]]
    ELSE [x \in (DOMAIN m) \cup {address} |-> IF x = address THEN val ELSE m[x]]

\* getchar(): the next byte of stdin, EOF when the stream is exhausted
getchar(inp) ==
    IF inp = <<>> THEN [c |-> EOF, rest |-> <<>>]
    ELSE [c |-> Head(inp), rest |-> Tail(inp)]

\* check_key(): the answers the poll can give; a key is reported only when
\* one is waiting
check_key(inp) == IF inp = <<>> THEN {FALSE} ELSE {FALSE, TRUE}

\* mem_read(address) when check_key() answers key: the value returned and
\* the memory and input stream it leaves
mem_read(m, inp, address, key) ==
    IF address = MR_KBSR
    THEN IF key
         THEN LET g  == getchar(inp)
                  m1 == mem_write(m, MR_KBSR, Shl(1, 15))
                  m2 == mem_write(m1, MR_KBDR, U16(g.c))
              IN  [val |-> MemGet(m2, address), memory |-> m2, input |-> g.rest]
         ELSE LET m1 == mem_write(m, MR_KBSR, 0)
              IN  [val |-> MemGet(m1, address), memory |-> m1, input |-> inp]
    ELSE [val |-> MemGet(m, address), memory |-> m, input |-> inp]

(***************************************************************************)
(* Image files.  A file is the origin word followed by the payload words,  *)
(* each as fread delivers it to the little-endian host (the bytes of the   *)
(* big-endian file taken low byte first).                                  *)
(***************************************************************************)
Min(a, b) == IF a < b THEN a ELSE b

\* the file an assembler writes for `words` placed at `origin`
ImageFile(origin, words) ==
    [origin |-> swap16(origin),
     words  |-> [i \in 1..Len(words) |-> swap16(words[i])]]

\* the swap loop over the `read` words fread stored from p on
RECURSIVE SwapLoop(_, _, _, _, _)
SwapLoop(m, p, words, i, read) ==
    IF i > read THEN m
    ELSE SwapLoop(mem_write(m, p, swap16(words[i])), p + 1, words, i + 1, read)

read_image_file(m, file) ==
    LET origin   == swap16(file.origin)
        max_read == U16(MEMORY_MAX - origin)
        read     == Min(Len(file.words), max_read)
    IN  SwapLoop(m, origin, file.words, 1, read)

\* the load loop of main over argv[1..]
RECURSIVE LoadImages(_, _, _)
LoadImages(m, files, j) ==
    IF j > Len(files) THEN m
    ELSE LoadImages(read_image_file(m, files[j]), files, j + 1)

(***************************************************************************)
(* Instruction fields.                                                     *)
(***************************************************************************)
OpOf(ins) == Shr(ins, 12)
DR(ins) == BitAnd(Shr(ins, 9), 7)
SR1(ins) == BitAnd(Shr(ins, 6), 7)
SR2(ins) == BitAnd(ins, 7)
ImmFlag(ins) == BitAnd(Shr(ins, 5), 1)
TrapVect(ins) == BitAnd(ins, 255)

(***************************************************************************)
(* The cases of the switch that touch registers only: the register file    *)
(* each leaves, given the register file after the fetch (PC incremented).  *)
(***************************************************************************)
ExecADD_rawimm(rg, ins) ==
    LET r0 == DR(ins)
        r1 == SR1(ins)
    IN  IF ImmFlag(ins) # 0
        THEN update_flags([rg EXCEPT ![r0] = U16(rg[r1] + BitAnd(ins, 31))], r0)
        ELSE update_flags([rg EXCEPT ![r0] = U16(rg[r1] + rg[SR2(ins)])], r0)

ExecADD(rg, ins) ==
    LET r0 == DR(ins)
        r1 == SR1(ins)
    IN  IF ImmFlag(ins) # 0
        THEN update_flags(
                 [rg EXCEPT ![r0] = U16(rg[r1] + sign_extend(BitAnd(ins, 31), 5))], r0)
        ELSE update_flags([rg EXCEPT ![r0] = U16(rg[r1] + rg[SR2(ins)])], r0)

ExecAND(rg, ins) ==
    LET r0 == DR(ins)
        r1 == SR1(ins)
    IN  IF ImmFlag(ins) # 0
        THEN update_flags(
                 [rg EXCEPT ![r0] = BitAnd(rg[r1], sign_extend(BitAnd(ins, 31), 5))], r0)
        ELSE update_flags([rg EXCEPT ![r0] = BitAnd(rg[r1], rg[SR2(ins)])], r0)

\* case OP_NOT ends without a call of update_flags
ExecNOT(rg, ins) == [rg EXCEPT ![DR(ins)] = Not16(rg[SR1(ins)])]

ExecBR_always(rg, ins) ==
    [rg EXCEPT ![R_PC] = U16(rg[R_PC] + sign_extend(BitAnd(ins, 511), 9))]

ExecBR(rg, ins) ==
    LET cond_flag == DR(ins)
        pc_offset == sign_extend(BitAnd(ins, 511), 9)
    IN  IF BitAnd(cond_flag, rg[R_COND]) # 0
        THEN [rg EXCEPT ![R_PC] = U16(rg[R_PC] + pc_offset)]
        ELSE rg

ExecJMP(rg, ins) == [rg EXCEPT ![R_PC] = rg[SR1(ins)]]

\* JSR that jumps without saving the return address
ExecJSR_nolink(rg, ins) ==
    IF BitAnd(Shr(ins, 11), 1) # 0
    THEN [rg EXCEPT ![R_PC] = U16(rg[R_PC] + sign_extend(BitAnd(ins, 2047), 11))]
    ELSE [rg EXCEPT ![R_PC] = rg[SR1(ins)]]

\* JSRR that reads the base register before R7 is written
ExecJSR_basefirst(rg, ins) ==
    IF BitAnd(Shr(ins, 11), 1) # 0
    THEN [rg EXCEPT ![R_R7] = rg[R_PC],
                    ![R_PC] = U16(rg[R_PC] + sign_extend(BitAnd(ins, 2047), 11))]
    ELSE [rg EXCEPT ![R_R7] = rg[R_PC], ![R_PC] = rg[SR1(ins)]]

ExecJSR(rg, ins) ==
    LET rg7 == [rg EXCEPT ![R_R7] = rg[R_PC]]
    IN  IF BitAnd(Shr(ins, 11), 1) # 0
        THEN [rg7 EXCEPT ![R_PC] = U16(rg7[R_PC] + sign_extend(BitAnd(ins, 2047), 11))]
        ELSE [rg7 EXCEPT ![R_PC] = rg7[SR1(ins)]]

ExecLEA(rg, ins) ==
    update_flags(
        [rg EXCEPT ![DR(ins)] = U16(rg[R_PC] + sign_extend(BitAnd(ins, 511), 9))],
        DR(ins))

(***************************************************************************)
(* The cases of the switch that access memory: the register file, memory   *)
(* and input stream each leaves, given the state after the fetch and the   *)
(* answer key of check_key() should the access poll the keyboard.          *)
(***************************************************************************)
\* the sum left as an int, not converted to the uint16_t parameter
PcOffset9_nowrap(rg, ins) == rg[R_PC] + sign_extend(BitAnd(ins, 511), 9)

PcOffset9(rg, ins) == U16(rg[R_PC] + sign_extend(BitAnd(ins, 511), 9))
BaseOffset6(rg, ins) == U16(rg[SR1(ins)] + sign_extend(BitAnd(ins, 63), 6))

ExecLD(rg, m, inp, ins, key) ==
    LET d == mem_read(m, inp, PcOffset9(rg, ins), key)
    IN  [reg    |-> update_flags([rg EXCEPT ![DR(ins)] = d.val], DR(ins)),
         memory |-> d.memory,
         input  |-> d.input]

\* case OP_LDI reads memory once, at PC + offset
ExecLDI(rg, m, inp, ins, key) ==
    LET d == mem_read(m, inp, PcOffset9(rg, ins), key)
    IN  [reg    |-> update_flags([rg EXCEPT ![DR(ins)] = d.val], DR(ins)),
         memory |-> d.memory,
         input  |-> d.input]

ExecLDR(rg, m, inp, ins, key) ==
    LET d == mem_read(m, inp, BaseOffset6(rg, ins), key)
    IN  [reg    |-> update_flags([rg EXCEPT ![DR(ins)] = d.val], DR(ins)),
         memory |-> d.memory,
         input  |-> d.input]

\* ST that updates the flags from the stored register
ExecST_flags(rg, m, inp, ins, key) ==
    [reg    |-> update_flags(rg, DR(ins)),
     memory |-> mem_write(m, U16(rg[R_PC] + sign_extend(BitAnd(ins, 511), 9)), rg[DR(ins)]),
     input  |-> inp]

ExecST(rg, m, inp, ins, key) ==
    [reg    |-> rg,
     memory |-> mem_write(m, PcOffset9(rg, ins), rg[DR(ins)]),
     input  |-> inp]

ExecSTI_direct(rg, m, inp, ins, key) ==
    [reg    |-> rg,
     memory |-> mem_write(m, PcOffset9(rg, ins), rg[DR(ins)]),
     input  |-> inp]

ExecSTI(rg, m, inp, ins, key) ==
    LET d == mem_read(m, inp, PcOffset9(rg, ins), key)
    IN  [reg    |-> rg,
         memory |-> mem_write(d.memory, d.val, rg[DR(ins)]),
         input  |-> d.input]

ExecSTR(rg, m, inp, ins, key) ==
    [reg    |-> rg,
     memory |-> mem_write(m, BaseOffset6(rg, ins), rg[DR(ins)]),
     input  |-> inp]

(***************************************************************************)
(* Trap routines.                                                          *)
(***************************************************************************)
\* "Enter a character:"
Prompt == <<69, 110, 116, 101, 114, 32, 97, 32, 99, 104, 97, 114, 97, 99, 116, 101, 114, 58>>
\* puts("HALT") writes the text and a newline
HaltNotice == <<72, 65, 76, 84, 10>>

\* the loop of TRAP_PUTS from address a: the bytes written, and whether the
\* pointer ran off the end of memory[] without meeting a zero word
RECURSIVE puts_scan(_, _)
puts_scan(m, a) ==
    IF a >= MEMORY_MAX THEN [out |-> <<>>, over |-> TRUE]
    ELSE IF MemGet(m, a) = 0 THEN [out |-> <<>>, over |-> FALSE]
    ELSE LET r == puts_scan(m, a + 1)
         IN  [out |-> <<MemGet(m, a) % 256>> \o r.out, over |-> r.over]

\* the loop of TRAP_PUTSP
RECURSIVE putsp_scan(_, _)

\* the two characters of a word written high byte first
putsp_scan_highfirst(m, a) ==
    IF a >= MEMORY_MAX THEN [out |-> <<>>, over |-> TRUE]
    ELSE IF MemGet(m, a) = 0 THEN [out |-> <<>>, over |-> FALSE]
    ELSE LET r     == putsp_scan(m, a + 1)
             char1 == BitAnd(MemGet(m, a), 255)
             char2 == Shr(MemGet(m, a), 8)
         IN  [out  |-> (IF char2 # 0 THEN <<char2, char1>> ELSE <<char1>>) \o r.out,
              over |-> r.over]

putsp_scan(m, a) ==
    IF a >= MEMORY_MAX THEN [out |-> <<>>, over |-> TRUE]
    ELSE IF MemGet(m, a) = 0 THEN [out |-> <<>>, over |-> FALSE]
    ELSE LET r     == putsp_scan(m, a + 1)
             char1 == BitAnd(MemGet(m, a), 255)
             char2 == Shr(MemGet(m, a), 8)
         IN  [out  |-> (IF char2 # 0 THEN <<char1, char2>> ELSE <<char1>>) \o r.out,
              over |-> r.over]

\* Reading past memory[MEMORY_MAX - 1] is undefined: the process may be
\* killed, or the loop reads whatever follows the array until a zero word.
Overrun(over) ==
    IF over
    THEN {[term |-> "segv", extra |-> <<>>],
          [term |-> "none", extra |-> <<>>],
          [term |-> "none", extra |-> <<63>>]}
    ELSE {[term |-> "none", extra |-> <<>>]}

(***************************************************************************)
(* The control loop: one action per case of the switch, each a whole       *)
(* iteration (fetch, decode, execute).                                     *)
(***************************************************************************)
LoopGuard == running = 1 /\ term = "none" /\ steps < MaxSteps

\* instr = mem_read(reg[R_PC]++)
Fetch(key) == mem_read(memory, input, reg[R_PC], key)
FetchReg == [reg EXCEPT ![R_PC] = U16(reg[R_PC] + 1)]

Iterate(f, rg, m, inp, out, run, t) ==
    /\ instr' = f.val
    /\ reg' = rg
    /\ memory' = m
    /\ input' = inp
    /\ output' = out
    /\ running' = run
    /\ term' = t
    /\ steps' = steps + 1
    /\ UNCHANGED <<argv, call>>

RegCase(f, rg) == Iterate(f, rg, f.memory, f.input, output, running, term)
MemCase(f, r) == Iterate(f, r.reg, r.memory, r.input, output, running, term)

OpADD ==
    /\ LoopGuard
    /\ \E key \in check_key(input) :
         LET f == Fetch(key)
         IN  OpOf(f.val) = OP_ADD /\ RegCase(f, ExecADD(FetchReg, f.val))

OpAND ==
    /\ LoopGuard
    /\ \E key \in check_key(input) :
         LET f == Fetch(key)
         IN  OpOf(f.val) = OP_AND /\ RegCase(f, ExecAND(FetchReg, f.val))

OpNOT ==
    /\ LoopGuard
    /\ \E key \in check_key(input) :
         LET f == Fetch(key)
         IN  OpOf(f.val) = OP_NOT /\ RegCase(f, ExecNOT(FetchReg, f.val))

OpBR ==
    /\ LoopGuard
    /\ \E key \in check_key(input) :
         LET f == Fetch(key)
         IN  OpOf(f.val) = OP_BR /\ RegCase(f, ExecBR(FetchReg, f.val))

OpJMP ==
    /\ LoopGuard
    /\ \E key \in check_key(input) :
         LET f == Fetch(key)
         IN  OpOf(f.val) = OP_JMP /\ RegCase(f, ExecJMP(FetchReg, f.val))

OpJSR ==
    /\ LoopGuard
    /\ \E key \in check_key(input) :
         LET f == Fetch(key)
         IN  OpOf(f.val) = OP_JSR /\ RegCase(f, ExecJSR(FetchReg, f.val))

OpLEA ==
    /\ LoopGuard
    /\ \E key \in check_key(input) :
         LET f == Fetch(key)
         IN  OpOf(f.val) = OP_LEA /\ RegCase(f, ExecLEA(FetchReg, f.val))

OpLD ==
    /\ LoopGuard
    /\ \E key \in check_key(input) :
         LET f == Fetch(key)
         IN  /\ OpOf(f.val) = OP_LD
             /\ \E key2 \in check_key(f.input) :
                  MemCase(f, ExecLD(FetchReg, f.memory, f.input, f.val, key2))

OpLDI ==
    /\ LoopGuard
    /\ \E key \in check_key(input) :
         LET f == Fetch(key)
         IN  /\ OpOf(f.val) = OP_LDI
             /\ \E key2 \in check_key(f.input) :
                  MemCase(f, ExecLDI(FetchReg, f.memory, f.input, f.val, key2))

OpLDR ==
    /\ LoopGuard
    /\ \E key \in check_key(input) :
         LET f == Fetch(key)
         IN  /\ OpOf(f.val) = OP_LDR
             /\ \E key2 \in check_key(f.input) :
                  MemCase(f, ExecLDR(FetchReg, f.memory, f.input, f.val, key2))

OpST ==
    /\ LoopGuard
    /\ \E key \in check_key(input) :
         LET f == Fetch(key)
         IN  /\ OpOf(f.val) = OP_ST
             /\ MemCase(f, ExecST(FetchReg, f.memory, f.input, f.val, FALSE))

OpSTI ==
    /\ LoopGuard
    /\ \E key \in check_key(input) :
         LET f == Fetch(key)
         IN  /\ OpOf(f.val) = OP_STI
             /\ \E key2 \in check_key(f.input) :
                  MemCase(f, ExecSTI(FetchReg, f.memory, f.input, f.val, key2))

OpSTR ==
    /\ LoopGuard
    /\ \E key \in check_key(input) :
         LET f == Fetch(key)
         IN  /\ OpOf(f.val) = OP_STR
             /\ MemCase(f, ExecSTR(FetchReg, f.memory, f.input, f.val, FALSE))

\* case OP_TRAP: reg[R_R7] = reg[R_PC], then the switch on the vector
TrapReg == [FetchReg EXCEPT ![R_R7] = FetchReg[R_PC]]

TrapCase(f, vect) == OpOf(f.val) = OP_TRAP /\ TrapVect(f.val) = vect

TrapGETC ==
    /\ LoopGuard
    /\ \E key \in check_key(input) :
         LET f == Fetch(key)
             g == getchar(f.input)
         IN  /\ TrapCase(f, TRAP_GETC)
             /\ Iterate(f, update_flags([TrapReg EXCEPT ![R_R0] = U16(g.c)], R_R0),
                        f.memory, g.rest, output, running, term)

TrapOUT ==
    /\ LoopGuard
    /\ \E key \in check_key(input) :
         LET f == Fetch(key)
         IN  /\ TrapCase(f, TRAP_OUT)
             /\ Iterate(f, TrapReg, f.memory, f.input,
                        Append(output, TrapReg[R_R0] % 256), running, term)

TrapPUTS ==
    /\ LoopGuard
    /\ \E key \in check_key(input) :
         LET f == Fetch(key)
             s == puts_scan(f.memory, TrapReg[R_R0])
         IN  /\ TrapCase(f, TRAP_PUTS)
             /\ \E o \in Overrun(s.over) :
                  Iterate(f, TrapReg, f.memory, f.input,
                          output \o s.out \o o.extra, running, o.term)

TrapIN ==
    /\ LoopGuard
    /\ \E key \in check_key(input) :
         LET f == Fetch(key)
             g == getchar(f.input)
             c == ToChar(g.c)
         IN  /\ TrapCase(f, TRAP_IN)
             /\ Iterate(f, update_flags([TrapReg EXCEPT ![R_R0] = U16(c)], R_R0),
                        f.memory, g.rest,
                        output \o Prompt \o <<c % 256>>, running, term)

TrapPUTSP ==
    /\ LoopGuard
    /\ \E key \in check_key(input) :
         LET f == Fetch(key)
             s == putsp_scan(f.memory, TrapReg[R_R0])
         IN  /\ TrapCase(f, TRAP_PUTSP)
             /\ \E o \in Overrun(s.over) :
                  Iterate(f, TrapReg, f.memory, f.input,
                          output \o s.out \o o.extra, running, o.term)

TrapHALT_keeps_running ==
    /\ LoopGuard
    /\ \E key \in check_key(input) :
         LET f == Fetch(key)
         IN  /\ TrapCase(f, TRAP_HALT)
             /\ Iterate(f, TrapReg, f.memory, f.input,
                        output \o HaltNotice, running, term)

TrapHALT ==
    /\ LoopGuard
    /\ \E key \in check_key(input) :
         LET f == Fetch(key)
         IN  /\ TrapCase(f, TRAP_HALT)
             /\ Iterate(f, TrapReg, f.memory, f.input,
                        output \o HaltNotice, 0, term)

\* the inner switch has no default: any other vector only sets R7
TrapVectors == {TRAP_GETC, TRAP_OUT, TRAP_PUTS, TRAP_IN, TRAP_PUTSP, TRAP_HALT}

TrapOther ==
    /\ LoopGuard
    /\ \E key \in check_key(input) :
         LET f == Fetch(key)
         IN  /\ OpOf(f.val) = OP_TRAP
             /\ TrapVect(f.val) \notin TrapVectors
             /\ Iterate(f, TrapReg, f.memory, f.input, output, running, term)

OpIllegal_continues ==
    /\ LoopGuard
    /\ \E key \in check_key(input) :
         LET f == Fetch(key)
         IN  /\ OpOf(f.val) \in {OP_RES, OP_RTI}
             /\ Iterate(f, FetchReg, f.memory, f.input, output, running, term)

\* case OP_RES, case OP_RTI, default: abort()
OpIllegal ==
    /\ LoopGuard
    /\ \E key \in check_key(input) :
         LET f == Fetch(key)
         IN  /\ OpOf(f.val) \in {OP_RES, OP_RTI}
             /\ Iterate(f, FetchReg, f.memory, f.input, output, running, "abort")

(***************************************************************************)
(* The command lines and input streams the machine is started with.        *)
(***************************************************************************)
InstrWords ==
    { \h0000, \h0401, \h0E01, \h09FF, \h0201,           \* BR
      \h1020, \h1021, \h103F, \h1240, \h1E3F,           \* ADD
      \h5020, \h503F, \h5240,                           \* AND
      \h903F, \h927F,                                   \* NOT
      \hC000, \hC040, \hC1C0,                           \* JMP
      \h4801, \h4FFF, \h4000, \h4040, \h41C0,           \* JSR, JSRR
      \h2001, \h2201, \h21FF,                           \* LD
      \hA000, \hA001, \hA3FF,                           \* LDI
      \h6040, \h607F,                                   \* LDR
      \hE001, \hE1FF, \hE200,                           \* LEA
      \h3001, \h3200,                                   \* ST
      \hB001, \hB200,                                   \* STI
      \h7040, \h7240,                                   \* STR
      \h8000, \hD000,                                   \* RTI, RES
      \hF020, \hF021, \hF022, \hF023, \hF024, \hF025,   \* TRAP 0x20..0x25
      \hF000, \hF026, \hF0FF }                          \* TRAP, other vectors

DataWords == { \h3001, \hFE00 }

\* two instructions followed by one data word
PairImages ==
    { << ImageFile(PC_START, <<w1, w2, d>>) >> :
        w1 \in InstrWords, w2 \in InstrWords, d \in DataWords }

\* ADD R0,R0,#0 ; BR Z,#1 ; <word> ; TRAP HALT
BranchImages ==
    { << ImageFile(PC_START, << \h1020, \h0401, w, \hF025 >>) >> :
        w \in InstrWords \cup DataWords }

\* LD R1,#1 ; JMP R1 ; .FILL 0xFDFF, and a second image at 0xFDFF whose
\* first instruction addresses the keyboard status register with offset 0
KeyboardWords == { \hB200, \hB000, \h2000, \hA000, \h3200, \h0000 }
KeyboardImages ==
    { << ImageFile(PC_START, << \h2201, \hC040, \hFDFF >>),
         ImageFile(\hFDFF, <<w, p>>) >> :
        w \in KeyboardWords, p \in { \h0000, \h4000, \hF025 } }

\* LEA R0,#1 ; TRAP PUTS or PUTSP ; text, and ADD R0,R0,#-1 ; TRAP PUTS or
\* PUTSP with a second image that fills the last word of memory
StringImages ==
    { << ImageFile(PC_START, << \hE001, t, \h0048, \h0049, \h0000 >>) >> :
        t \in { \hF022, \hF024 } }
    \cup { << ImageFile(PC_START, << \hE001, t, \h4948, \h0000 >>) >> :
        t \in { \hF022, \hF024 } }
    \cup { << ImageFile(PC_START, << \h103F, t >>), ImageFile(\hFFFF, << \h0041 >>) >> :
        t \in { \hF022, \hF024 } }

\* JSR #1 ; TRAP HALT ; <word> ; JMP R7: a subroutine of one instruction
CallImages ==
    { << ImageFile(PC_START, << \h4801, \hF025, w, \hC1C0 >>) >> : w \in InstrWords }

\* ADD R0,R0,#-2 ; JMP R0, and a second image in the last two words of memory
WrapImages ==
    { << ImageFile(PC_START, << \h103E, \hC000 >>), ImageFile(\hFFFE, <<w1, w2>>) >> :
        w1 \in { \h0000, \h3001, \h2201, \hB001, \hA201, \hE201, \h7003, \h6203 },
        w2 \in { \h0000, \h0E01, \h0041 } }

\* LD R0,#1 ; TRAP PUTS or PUTSP ; .FILL 0xFE00, and a second image that puts
\* a text in the keyboard status register
StatusStringImages ==
    { << ImageFile(PC_START, << \h2001, t, \hFE00 >>), ImageFile(\hFE00, << \h0041 >>) >> :
        t \in { \hF022, \hF024 } }

CommandLines ==
    PairImages \cup BranchImages \cup KeyboardImages \cup StringImages
        \cup CallImages \cup WrapImages \cup StatusStringImages

Inputs == { <<>>, <<65>>, <<200, 0>> }

NoCall == [fn |-> "none"]

Init ==
    /\ argv \in CommandLines
    /\ memory = LoadImages(<<>>, argv, 1)
    /\ reg = [i \in 0..(R_COUNT - 1) |->
                IF i = R_PC THEN PC_START ELSE IF i = R_COND THEN FL_ZRO ELSE 0]
    /\ running = 1
    /\ instr = 0
    /\ term = "none"
    /\ input \in Inputs
    /\ output = <<>>
    /\ steps = 0
    /\ call = NoCall

Next ==
    \/ OpADD \/ OpAND \/ OpNOT \/ OpBR \/ OpJMP \/ OpJSR \/ OpLEA
    \/ OpLD \/ OpLDI \/ OpLDR \/ OpST \/ OpSTI \/ OpSTR
    \/ TrapGETC \/ TrapOUT \/ TrapPUTS \/ TrapIN \/ TrapPUTSP \/ TrapHALT
    \/ TrapOther \/ OpIllegal

Spec == Init /\ [][Next]_vars

(***************************************************************************)
(* sign_extend exercised on its own: every width 1..16 and every value     *)
(* that fits the width.                                                    *)
(***************************************************************************)
ResetReg ==
    [i \in 0..(R_COUNT - 1) |->
        IF i = R_PC THEN PC_START ELSE IF i = R_COND THEN FL_ZRO ELSE 0]

Idle ==
    /\ argv = <<>>
    /\ memory = <<>>
    /\ running = 1
    /\ instr = 0
    /\ term = "none"
    /\ input = <<>>
    /\ output = <<>>
    /\ steps = 0

InitSignExtend ==
    /\ Idle
    /\ reg = ResetReg
    /\ \E w \in 1..16 :
         \E x \in 0..(2 ^ w - 1) :
           call = [fn |-> "sign_extend", x |-> x, bit_count |-> w,
                   done |-> FALSE, ret |-> 0]

CallSignExtend ==
    /\ call.fn = "sign_extend"
    /\ ~call.done
    /\ call' = [call EXCEPT !.done = TRUE,
                            !.ret = sign_extend(call.x, call.bit_count)]
    /\ UNCHANGED <<memory, reg, running, instr, term, input, output, argv, steps>>

SpecSignExtend == InitSignExtend /\ [][CallSignExtend]_vars

(***************************************************************************)
(* ADD and AND exercised on a register file: the immediate form and the    *)
(* register form of the same instruction, run from the same registers.     *)
(***************************************************************************)
AluValues == { \h0000, \h0001, \h7FFF, \hFFFF }

\* the words the decoder of case OP_ADD / OP_AND takes apart
EncodeImm(op, dst, src1, imm5) == op * 4096 + dst * 512 + src1 * 64 + 32 + imm5
EncodeReg(op, dst, src1, src2) == op * 4096 + dst * 512 + src1 * 64 + src2

InitALU ==
    /\ Idle
    /\ \E op \in {OP_ADD, OP_AND}, d \in 0..7, s1 \in 0..7, s2 \in 0..7, i \in 0..31 :
         /\ call = [fn |-> "alu", op |-> op, dst |-> d, src1 |-> s1, src2 |-> s2,
                    imm5 |-> i, done |-> FALSE, imm |-> ResetReg, rr |-> ResetReg]
         /\ \E a \in AluValues :
              reg = [ResetReg EXCEPT ![s1] = a, ![s2] = sign_extend(i, 5)]

ExecALU(rg, ins) == IF OpOf(ins) = OP_ADD THEN ExecADD(rg, ins) ELSE ExecAND(rg, ins)

CallALU ==
    /\ call.fn = "alu"
    /\ ~call.done
    /\ call' = [call EXCEPT
                  !.done = TRUE,
                  !.imm = ExecALU(reg, EncodeImm(call.op, call.dst, call.src1, call.imm5)),
                  !.rr  = ExecALU(reg, EncodeReg(call.op, call.dst, call.src1, call.src2))]
    /\ UNCHANGED <<memory, reg, running, instr, term, input, output, argv, steps>>

SpecALU == InitALU /\ [][CallALU]_vars

(***************************************************************************)
(* PUTS and PUTSP exercised on texts: the machine is started on the image  *)
(* LEA R0,#2 ; TRAP PUTS or PUTSP ; TRAP HALT ; buffer, the buffer holding *)
(* the text one character per word or two characters per word.             *)
(***************************************************************************)
MaxText == 3

TextBytes == { 1, 65, 128, 255 }

\* the packed encoding: low byte first, high byte second, high byte 0 for an
\* odd final character
RECURSIVE Pack(_)
Pack(t) ==
    IF t = <<>> THEN <<>>
    ELSE IF Len(t) = 1 THEN <<t[1]>>
    ELSE <<t[1] + 256 * t[2]>> \o Pack(SubSeq(t, 3, Len(t)))

InitStrings ==
    /\ \E n \in 1..MaxText :
         \E t \in [1..n -> TextBytes] :
           /\ call = [fn |-> "text", text |-> t]
           /\ \/ argv = << ImageFile(PC_START, << \hE002, \hF022, \hF025 >> \o t \o <<0>>) >>
              \/ argv = << ImageFile(PC_START, << \hE002, \hF024, \hF025 >> \o Pack(t) \o <<0>>) >>
    /\ memory = LoadImages(<<>>, argv, 1)
    /\ reg = ResetReg
    /\ running = 1
    /\ instr = 0
    /\ term = "none"
    /\ input = <<>>
    /\ output = <<>>
    /\ steps = 0

NextStrings == OpLEA \/ TrapPUTS \/ TrapPUTSP \/ TrapHALT

SpecStrings == InitStrings /\ [][NextStrings]_vars

(***************************************************************************)
(* The load loop exercised on its own: one or two image files, loaded one  *)
(* per step into the zeroed memory; call.before is Memory as it was before *)
(* the file loaded last.                                                   *)
(***************************************************************************)
MaxWords == 2

LoadOrigins == { \h0000, \h0001, \h3000, \hFFFE, \hFFFF }
LoadWords == { \h1234, \h00FF }

InitLoad ==
    /\ memory = <<>>
    /\ reg = ResetReg
    /\ running = 1
    /\ instr = 0
    /\ term = "none"
    /\ input = <<>>
    /\ output = <<>>
    /\ steps = 0
    /\ call = [fn |-> "load", j |-> 1, before |-> <<>>]
    /\ \E o1 \in LoadOrigins, n1 \in 1..MaxWords :
         \E w1 \in [1..n1 -> LoadWords] :
           \/ argv = << ImageFile(o1, w1) >>
           \/ \E o2 \in LoadOrigins, n2 \in 1..MaxWords :
                \E w2 \in [1..n2 -> LoadWords] :
                  argv = << ImageFile(o1, w1), ImageFile(o2, w2) >>

\* one pass of the load loop: read_image(argv[j])
LoadFile ==
    /\ call.fn = "load"
    /\ call.j <= Len(argv)
    /\ memory' = read_image_file(memory, argv[call.j])
    /\ call' = [call EXCEPT !.j = call.j + 1, !.before = memory]
    /\ UNCHANGED <<reg, running, instr, term, input, output, argv, steps>>

SpecLoad == InitLoad /\ [][LoadFile]_vars

(***************************************************************************)
(* Two runs side by side: one in the machine's variables, the other in the *)
(* record `call`, started from the same Memory, registers and input and    *)
(* stepped together, each with its own answers of the keyboard poll.       *)
(***************************************************************************)
Machine ==
    [memory |-> memory, reg |-> reg, running |-> running, instr |-> instr,
     term |-> term, input |-> input, output |-> output]

\* one iteration of the loop from machine s: key and key2 are what check_key
\* answers at the fetch and at the operand read when a byte is there to be
\* read, u what an overrun of memory[] does
Iteration(s, key, key2, u) ==
    LET f    == mem_read(s.memory, s.input, s.reg[R_PC], key /\ s.input # <<>>)
        ins  == f.val
        k2   == key2 /\ f.input # <<>>
        rg   == [s.reg EXCEPT ![R_PC] = U16(s.reg[R_PC] + 1)]
        tr   == [rg EXCEPT ![R_R7] = rg[R_PC]]
        b    == [s EXCEPT !.instr = ins, !.memory = f.memory, !.input = f.input,
                          !.reg = rg]
        regcase(r) == [b EXCEPT !.reg = r]
        memcase(r) == [b EXCEPT !.reg = r.reg, !.memory = r.memory, !.input = r.input]
        g    == getchar(f.input)
        scan(sc)   ==
            LET o == IF sc.over THEN u ELSE CHOOSE x \in Overrun(FALSE) : TRUE
            IN  [b EXCEPT !.reg = tr, !.output = s.output \o sc.out \o o.extra,
                          !.term = o.term]
        vect == TrapVect(ins)
    IN  CASE OpOf(ins) = OP_ADD -> regcase(ExecADD(rg, ins))
          [] OpOf(ins) = OP_AND -> regcase(ExecAND(rg, ins))
          [] OpOf(ins) = OP_NOT -> regcase(ExecNOT(rg, ins))
          [] OpOf(ins) = OP_BR  -> regcase(ExecBR(rg, ins))
          [] OpOf(ins) = OP_JMP -> regcase(ExecJMP(rg, ins))
          [] OpOf(ins) = OP_JSR -> regcase(ExecJSR(rg, ins))
          [] OpOf(ins) = OP_LEA -> regcase(ExecLEA(rg, ins))
          [] OpOf(ins) = OP_LD  -> memcase(ExecLD(rg, f.memory, f.input, ins, k2))
          [] OpOf(ins) = OP_LDI -> memcase(ExecLDI(rg, f.memory, f.input, ins, k2))
          [] OpOf(ins) = OP_LDR -> memcase(ExecLDR(rg, f.memory, f.input, ins, k2))
          [] OpOf(ins) = OP_ST  -> memcase(ExecST(rg, f.memory, f.input, ins, FALSE))
          [] OpOf(ins) = OP_STI -> memcase(ExecSTI(rg, f.memory, f.input, ins, k2))
          [] OpOf(ins) = OP_STR -> memcase(ExecSTR(rg, f.memory, f.input, ins, FALSE))
          [] OpOf(ins) = OP_TRAP /\ vect = TRAP_GETC ->
                [b EXCEPT !.reg = update_flags([tr EXCEPT ![R_R0] = U16(g.c)], R_R0),
                          !.input = g.rest]
          [] OpOf(ins) = OP_TRAP /\ vect = TRAP_OUT ->
                [b EXCEPT !.reg = tr, !.output = Append(s.output, tr[R_R0] % 256)]
          [] OpOf(ins) = OP_TRAP /\ vect = TRAP_PUTS ->
                scan(puts_scan(f.memory, tr[R_R0]))
          [] OpOf(ins) = OP_TRAP /\ vect = TRAP_IN ->
                [b EXCEPT !.reg = update_flags([tr EXCEPT ![R_R0] = U16(ToChar(g.c))], R_R0),
                          !.input = g.rest,
                          !.output = s.output \o Prompt \o <<ToChar(g.c) % 256>>]
          [] OpOf(ins) = OP_TRAP /\ vect = TRAP_PUTSP ->
                scan(putsp_scan(f.memory, tr[R_R0]))
          [] OpOf(ins) = OP_TRAP /\ vect = TRAP_HALT ->
                [b EXCEPT !.reg = tr, !.output = s.output \o HaltNotice, !.running = 0]
          [] OpOf(ins) = OP_TRAP /\ vect \notin TrapVectors -> [b EXCEPT !.reg = tr]
          [] OTHER -> [b EXCEPT !.term = "abort"]

TwoRunImages == KeyboardImages \cup BranchImages \cup CallImages

InitTwoRuns ==
    /\ argv \in TwoRunImages
    /\ memory = LoadImages(<<>>, argv, 1)
    /\ reg = ResetReg
    /\ running = 1
    /\ instr = 0
    /\ term = "none"
    /\ input \in Inputs
    /\ output = <<>>
    /\ steps = 0
    /\ call = [fn |-> "run2", run |-> Machine]

\* both runs perform one iteration
StepBoth ==
    /\ call.fn = "run2"
    /\ LoopGuard
    /\ call.run.running = 1 /\ call.run.term = "none"
    /\ \E key \in BOOLEAN, key2 \in BOOLEAN, u \in Overrun(TRUE) :
         LET n == Iteration(Machine, key, key2, u)
         IN  /\ memory' = n.memory
             /\ reg' = n.reg
             /\ running' = n.running
             /\ instr' = n.instr
             /\ term' = n.term
             /\ input' = n.input
             /\ output' = n.output
    /\ \E key \in BOOLEAN, key2 \in BOOLEAN, u \in Overrun(TRUE) :
         call' = [call EXCEPT !.run = Iteration(call.run, key, key2, u)]
    /\ steps' = steps + 1
    /\ UNCHANGED argv

SpecTwoRuns == InitTwoRuns /\ [][StepBoth]_vars

(***************************************************************************)
(* Properties.                                                             *)
(***************************************************************************)
\* the flag that matches the sign of a 16-bit value
FlagOf(v) == IF v = 0 THEN FL_ZRO ELSE IF v >= 32768 THEN FL_NEG ELSE FL_POS

\* an iteration has run, so instr holds the instruction executed last
Executed == steps > 0

IsTrap(ins, vect) == OpOf(ins) = OP_TRAP /\ TrapVect(ins) = vect

FlagAffecting(ins) ==
    \/ OpOf(ins) \in {OP_ADD, OP_AND, OP_NOT, OP_LD, OP_LDI, OP_LDR, OP_LEA}
    \/ IsTrap(ins, TRAP_GETC)
    \/ IsTrap(ins, TRAP_IN)

FlagDest(ins) == IF OpOf(ins) = OP_TRAP THEN R_R0 ELSE DR(ins)

\* C1: after every flag-affecting instruction (ADD, AND, NOT, LD, LDI, LDR,
\* LEA, GETC, IN) the condition flag is ZERO, NEGATIVE or POSITIVE according
\* to the new value of the destination register.
C1_FlagsMatchDestination ==
    (Executed /\ FlagAffecting(instr))
        => reg[R_COND] = FlagOf(reg[FlagDest(instr)])

\* the offset9 field read as a two's-complement number
Signed9(ins) == LET o == ins % 512 IN IF o >= 256 THEN o - 512 ELSE o

\* the address PC + signExtend(offset9, 9) of the instruction the step fetches
PointerCell == (reg[R_PC] + 1 + Signed9(instr')) % 65536

\* C2: LDI dst,offset9 with Memory[PC + offset] = target and Memory[target]
\* = V, neither address being the keyboard status register, leaves
\* register[dst] = V.
C2_LdiOneIndirection ==
    [][ (OpOf(instr') = OP_LDI
          /\ PointerCell # MR_KBSR
          /\ MemGet(memory, PointerCell) # MR_KBSR)
        => reg'[DR(instr')] = MemGet(memory, MemGet(memory, PointerCell)) ]_vars

\* what C3 says of a step that executes STI: Memory[target] = V afterwards,
\* and the pointer cell keeps its value unless it is the target
StiStores ==
    LET target == MemGet(memory, PointerCell)
        V      == reg[DR(instr')]
    IN  /\ MemGet(memory', target) = V
        /\ (PointerCell # target => MemGet(memory', PointerCell) = target)

\* C3 as stated: for every src, offset9 and memory contents, STI src,offset9
\* with Memory[PC + offset] = target and register[src] = V leaves
\* Memory[target] = V and the pointer cell unchanged unless it is the target.
C3_StiOneIndirection_AsStated ==
    [][ OpOf(instr') = OP_STI => StiStores ]_vars

\* C3 (amended): the same, provided the pointer cell PC + offset is not the
\* keyboard status register 0xFE00, whose read polls the keyboard and
\* rewrites the cell before its value is used as the target.
C3_StiOneIndirection ==
    [][ (OpOf(instr') = OP_STI /\ PointerCell # MR_KBSR) => StiStores ]_vars

\* an STI has just stored a nonzero V through a pointer cell other than its
\* target
C3_Witness ==
    /\ Executed
    /\ OpOf(instr) = OP_STI
    /\ LET ptr == PcOffset9(reg, instr)
       IN  /\ ptr # MR_KBSR
           /\ MemGet(memory, ptr) # ptr
           /\ reg[DR(instr)] # 0
           /\ MemGet(memory, MemGet(memory, ptr)) = reg[DR(instr)]

\* C4: a TRAP whose vector is not 0x20..0x25 is fatal: the machine is in an
\* abnormal-termination state after it (and so fetches nothing further).
C4_UnknownTrapFatal ==
    (Executed /\ OpOf(instr) = OP_TRAP /\ TrapVect(instr) \notin TrapVectors)
        => term # "none"

\* C5: an instruction with opcode RTI or RES is fatal: the machine ends in
\* the abort state, which is not the state HALT leaves (running is still 1),
\* and no iteration starts from a state in which the process has ended.
C5_IllegalOpcodeFatal ==
    /\ []((Executed /\ OpOf(instr) \in {OP_RTI, OP_RES})
            => (term = "abort" /\ running = 1))
    /\ [][term = "none"]_vars

C5_Witness == Executed /\ OpOf(instr) = OP_RES /\ term = "abort"

\* C6: HALT is terminal: after TRAP 0x25 the loop flag is clear, no
\* iteration starts with the flag clear (so PC, registers and memory stay as
\* they are), and the flag is clear only after a HALT trap.
C6_HaltTerminal ==
    /\ []((Executed /\ IsTrap(instr, TRAP_HALT) /\ term = "none") <=> running = 0)
    /\ [][running = 1]_vars

C6_Witness == running = 0 /\ IsTrap(instr, TRAP_HALT) /\ steps < MaxSteps

\* C7: in every reachable state the condition-flag register holds exactly
\* one of NEGATIVE, ZERO, POSITIVE.
C7_OneFlag == reg[R_COND] \in {FL_NEG, FL_ZRO, FL_POS}

C7_Witness == Executed /\ FlagAffecting(instr) /\ reg[R_COND] = FL_NEG

\* C8: for every width w in 1..16 and every x below 2^w: if bit w-1 of x is
\* 1 the result has bits w..15 all set and bits 0..w-1 those of x, otherwise
\* the result is x; signExtend(0x1F,5) = 0xFFFF and signExtend(0x0F,5) = 0xF.
C8_SignExtend ==
    (call.fn = "sign_extend" /\ call.done) =>
        LET w == call.bit_count
            x == call.x
            r == call.ret
        IN  /\ (x \div (2 ^ (w - 1))) % 2 = 1
                 => (r % (2 ^ w) = x /\ r \div (2 ^ w) = 2 ^ (16 - w) - 1)
            /\ (x \div (2 ^ (w - 1))) % 2 = 0 => r = x
            /\ (x = 31 /\ w = 5) => r = 65535
            /\ (x = 15 /\ w = 5) => r = 15

C8_Witness ==
    /\ call.fn = "sign_extend"
    /\ call.done
    /\ call.x = 31
    /\ call.bit_count = 5
    /\ call.ret = 65535

\* the imm5 field read as a two's-complement number
Signed5(i) == IF i >= 16 THEN i - 32 ELSE i

\* C9: ADD and AND in immediate mode leave the same destination value and
\* the same condition flag as the register-mode form whose src2 register
\* holds signExtend(imm5,5); the ADD result is the sum modulo 2^16.
C9_ImmediateEqualsRegister ==
    (call.fn = "alu" /\ call.done) =>
        /\ call.imm[call.dst] = call.rr[call.dst]
        /\ call.imm[R_COND] = call.rr[R_COND]
        /\ call.op = OP_ADD
             => call.imm[call.dst] = (reg[call.src1] + Signed5(call.imm5)) % 65536

C9_Witness ==
    /\ call.fn = "alu"
    /\ call.done
    /\ call.op = OP_ADD
    /\ call.imm5 = 31
    /\ reg[call.src1] = 0
    /\ call.src1 # call.src2
    /\ call.imm[call.dst] = 65535
    /\ call.rr[R_COND] = FL_NEG

\* the image ADD R0,R0,#0 ; BR Z,#1 ; <word> ; TRAP HALT at 0x3000
BranchScenario == argv \in BranchImages

\* C10: BR is taken exactly when (mask AND flags) is nonzero, PC then being
\* the incremented PC plus the signed offset modulo 2^16 and otherwise the
\* incremented PC; and the scenario image runs to HALT in three iterations
\* without the PC ever being 0x3002.
C10_Branch ==
    /\ [][ OpOf(instr') = OP_BR =>
             reg'[R_PC] =
                IF BitAnd((instr' \div 512) % 8, reg[R_COND]) # 0
                THEN (reg[R_PC] + 1 + Signed9(instr')) % 65536
                ELSE (reg[R_PC] + 1) % 65536 ]_vars
    /\ [](BranchScenario =>
            /\ term = "none"
            /\ reg[R_PC] # 12290
            /\ (running = 0 <=> steps = 3)
            /\ steps <= 3
            /\ (running = 0 => (IsTrap(instr, TRAP_HALT) /\ reg[R_PC] = 12292)))

\* the scenario has halted although the skipped word is an illegal opcode
C10_Witness ==
    /\ BranchScenario
    /\ running = 0
    /\ MemGet(memory, 12290) = 53248

\* the offset11 field read as a two's-complement number
Signed11(ins) == LET o == ins % 2048 IN IF o >= 1024 THEN o - 2048 ELSE o

LongFlag(ins) == (ins \div 2048) % 2

\* the image JSR #1 ; TRAP HALT ; <word> ; JMP R7 at 0x3000: A = 0x3000
CallScenario == argv \in CallImages

\* C11: JSR (long flag set) at A sets R7 = A+1 and PC = A+1+offset11 modulo
\* 2^16; JMP R7 sets PC to R7; so when the call scenario's subroutine has
\* left R7 = A+1, the JMP R7 that ends it leaves PC = A+1.
C11_CallReturn ==
    /\ [][ (OpOf(instr') = OP_JSR /\ LongFlag(instr') = 1) =>
             /\ reg'[R_R7] = (reg[R_PC] + 1) % 65536
             /\ reg'[R_PC] = (reg[R_PC] + 1 + Signed11(instr')) % 65536 ]_vars
    /\ [][ (OpOf(instr') = OP_JMP /\ (instr' \div 64) % 8 = 7) =>
             reg'[R_PC] = reg[R_R7] ]_vars
    /\ []((CallScenario /\ steps = 1) => (reg[R_R7] = 12289 /\ reg[R_PC] = 12290))
    /\ []((CallScenario /\ steps = 3 /\ instr = 49600 /\ reg[R_R7] = 12289)
            => reg[R_PC] = 12289)

\* the subroutine ADD R0,R0,#1 has run and returned to A+1
C11_Witness ==
    /\ CallScenario
    /\ steps = 3
    /\ instr = 49600
    /\ reg[R_R0] = 1
    /\ reg[R_PC] = 12289

\* C20: JSRR (long flag clear) leaves R7 = incremented PC; with base register
\* 7 it leaves PC = incremented PC as well, with any other base register r
\* PC becomes the value r held before the instruction.
C20_JsrrBaseR7 ==
    [][ (OpOf(instr') = OP_JSR /\ LongFlag(instr') = 0) =>
          /\ reg'[R_R7] = (reg[R_PC] + 1) % 65536
          /\ reg'[R_PC] = IF (instr' \div 64) % 8 = 7
                          THEN (reg[R_PC] + 1) % 65536
                          ELSE reg[(instr' \div 64) % 8] ]_vars

\* ADD R7,R7,#-1 ; JSRR R7: R7 held 0xFFFF, and PC is 0x3002, not 0xFFFF
C20_Witness ==
    /\ steps = 2
    /\ instr = 16832
    /\ MemGet(memory, 12288) = 7743
    /\ reg[R_R7] = 12290
    /\ reg[R_PC] = 12290

\* the offset6 field read as a two's-complement number
Signed6(ins) == LET o == ins % 64 IN IF o >= 32 THEN o - 64 ELSE o

\* the address baseReg + signExtend(offset6, 6) of the instruction the step
\* fetches
BaseCell == (reg[SR1(instr')] + Signed6(instr')) % 65536

\* the addresses the loop of PUTS / PUTSP reads in memory[] from a on
RECURSIVE ScanReads(_, _)
ScanReads(m, a) ==
    IF a >= MEMORY_MAX THEN {}
    ELSE IF MemGet(m, a) = 0 THEN {a}
    ELSE {a} \cup ScanReads(m, a + 1)

IsScan(ins) == IsTrap(ins, TRAP_PUTS) \/ IsTrap(ins, TRAP_PUTSP)

\* the step reads the keyboard status register: by its fetch, by its operand
\* read, or by the scan of a string
ReadsStatusByAccess ==
    \/ reg[R_PC] = MR_KBSR
    \/ (OpOf(instr') \in {OP_LD, OP_LDI, OP_STI} /\ PointerCell = MR_KBSR)
    \/ (OpOf(instr') = OP_LDR /\ BaseCell = MR_KBSR)

ReadsStatusByScan == IsScan(instr') /\ MR_KBSR \in ScanReads(memory, reg[R_R0])

\* what a read of 0xFE00 does: with a byte ready the status becomes 0x8000
\* and the data register the next input byte, which is consumed; with none
\* the status becomes 0 and data register and input stay
PollEffect ==
    \/ /\ input # <<>>
       /\ MemGet(memory', MR_KBSR) = 32768
       /\ MemGet(memory', MR_KBDR) = Head(input)
       /\ input' = Tail(input)
    \/ /\ MemGet(memory', MR_KBSR) = 0
       /\ MemGet(memory', MR_KBDR) = MemGet(memory, MR_KBDR)
       /\ input' = input

\* what reads of other addresses do: the fetch returns Memory[PC], a load
\* returns the addressed word, and only a store changes Memory
PlainEffect ==
    /\ instr' = MemGet(memory, reg[R_PC])
    /\ OpOf(instr') \notin {OP_ST, OP_STI, OP_STR} => memory' = memory
    /\ OpOf(instr') = OP_LD => reg'[DR(instr')] = MemGet(memory, PointerCell)
    /\ OpOf(instr') = OP_LDR => reg'[DR(instr')] = MemGet(memory, BaseCell)

\* C13: a read of an address other than 0xFE00 leaves Memory unchanged and
\* returns Memory[a]; a read of 0xFE00 polls the keyboard (PollEffect); this
\* holds for every read the executor performs: the fetch, the operand reads
\* and the reads of the PUTS / PUTSP scans.
C13_ReadEffects ==
    [][ /\ (ReadsStatusByAccess \/ ReadsStatusByScan) => PollEffect
        /\ ~(ReadsStatusByAccess \/ ReadsStatusByScan) => PlainEffect ]_vars

StoreJumpOrOutput(ins) ==
    \/ OpOf(ins) \in {OP_ST, OP_STI, OP_STR, OP_JMP, OP_JSR, OP_BR}
    \/ IsTrap(ins, TRAP_OUT)
    \/ IsTrap(ins, TRAP_PUTS)
    \/ IsTrap(ins, TRAP_PUTSP)
    \/ IsTrap(ins, TRAP_HALT)

\* C15: every store (ST, STI, STR), jump (JMP, JSR, JSRR), branch (BR) and
\* output-only trap (OUT, PUTS, PUTSP, HALT) leaves the condition flag as it
\* was.
C15_FlagsUntouched ==
    [][ StoreJumpOrOutput(instr') => reg'[R_COND] = reg[R_COND] ]_vars

\* a store of a register whose sign differs from the flag has run
C15_Witness ==
    /\ Executed
    /\ OpOf(instr) = OP_ST
    /\ reg[R_COND] # FlagOf(reg[DR(instr)])

\* the bytes a scan writes when it wraps from address 65535 to address 0
RECURSIVE PutsWrap(_, _, _)
PutsWrap(m, a, n) ==
    IF n = 0 \/ MemGet(m, a) = 0 THEN <<>>
    ELSE <<MemGet(m, a) % 256>> \o PutsWrap(m, (a + 1) % 65536, n - 1)

RECURSIVE PutspWrap(_, _, _)
PutspWrap(m, a, n) ==
    IF n = 0 \/ MemGet(m, a) = 0 THEN <<>>
    ELSE (IF MemGet(m, a) \div 256 # 0
          THEN <<MemGet(m, a) % 256, MemGet(m, a) \div 256>>
          ELSE <<MemGet(m, a) % 256>>)
         \o PutspWrap(m, (a + 1) % 65536, n - 1)

\* C17: PUTS and PUTSP read memory cells 0..65535 only: with no zero word
\* between R0 and 65535 the scan goes on at address 0, without a fault, and
\* ends at the first zero word.
C17_ScanWraps ==
    [][ /\ IsTrap(instr', TRAP_PUTS) =>
             (term' = "none" /\ output' = output \o PutsWrap(memory, reg[R_R0], 65536))
        /\ IsTrap(instr', TRAP_PUTSP) =>
             (term' = "none" /\ output' = output \o PutspWrap(memory, reg[R_R0], 65536))
      ]_vars

\* C18: address arithmetic is modulo 2^16: the fetch increments PC modulo
\* 65536 (0xFFFF -> 0), and LD, ST, LDI, STI, LEA use the address
\* (PC + 1 + offset9) mod 65536 and LDR, STR (baseReg + offset6) mod 65536, so
\* PC and every cell written lie in 0..65535.  (LDI: the one read case OP_LDI
\* performs.)
C18_AddressWrap ==
    /\ [](reg[R_PC] \in 0..65535 /\ \A a \in DOMAIN memory : a \in 0..65535)
    /\ [][ /\ OpOf(instr') \notin {OP_BR, OP_JMP, OP_JSR}
                => reg'[R_PC] = (reg[R_PC] + 1) % 65536
           /\ OpOf(instr') = OP_LEA => reg'[DR(instr')] = PointerCell
           /\ OpOf(instr') = OP_ST
                => MemGet(memory', PointerCell) = reg[DR(instr')]
           /\ OpOf(instr') = OP_STR
                => MemGet(memory', BaseCell) = reg[DR(instr')]
           /\ (OpOf(instr') \in {OP_LD, OP_LDI} /\ PointerCell # MR_KBSR)
                => reg'[DR(instr')] = MemGet(memory, PointerCell)
           /\ (OpOf(instr') = OP_LDR /\ BaseCell # MR_KBSR)
                => reg'[DR(instr')] = MemGet(memory, BaseCell)
           /\ (OpOf(instr') = OP_STI /\ PointerCell # MR_KBSR)
                => MemGet(memory', MemGet(memory, PointerCell)) = reg[DR(instr')]
         ]_vars

\* ST R0,#1 at 0xFFFE has stored R0 in cell 0, and the fetch at 0xFFFF has
\* left PC = 0
C18_Witness ==
    /\ argv \in WrapImages
    /\ steps = 4
    /\ MemGet(memory, 65534) = 12289
    /\ MemGet(memory, 0) = 65534
    /\ instr = 0
    /\ reg[R_PC] = 0

\* C19: GETC and IN leave register 0 = b for the input byte b delivered, the
\* flag ZERO when b = 0 and POSITIVE otherwise; GETC writes nothing and IN
\* writes its prompt and then exactly b.
C19_InputByteStored ==
    [][ ((IsTrap(instr', TRAP_GETC) \/ IsTrap(instr', TRAP_IN)) /\ input # <<>>) =>
          LET b == Head(input)
          IN  /\ reg'[R_R0] = b
              /\ reg'[R_COND] = (IF b = 0 THEN FL_ZRO ELSE FL_POS)
              /\ IsTrap(instr', TRAP_GETC) => output' = output
              /\ IsTrap(instr', TRAP_IN) => output' = output \o Prompt \o <<b>>
      ]_vars

\* C12: two runs started from identical Memory and registers and fed the
\* identical input bytes are in the same machine state after every iteration
\* and have produced the same output, whatever the keyboard poll answered in
\* each run.
C12_Deterministic ==
    call.fn = "run2" => call.run = Machine

\* C14: for every nonempty text of nonzero bytes, PUTS on the
\* one-character-per-word buffer and PUTSP on the packed buffer of the text
\* both write exactly the bytes of the text, in order.
C14_StringFidelity ==
    (call.fn = "text" /\ steps >= 2) =>
        /\ term = "none"
        /\ steps = 2 => (IsScan(instr) /\ output = call.text)
        /\ steps = 3 => output = call.text \o HaltNotice

\* PUTSP has written a text of odd length from its packed buffer
C14_Witness ==
    /\ call.fn = "text"
    /\ steps = 2
    /\ IsTrap(instr, TRAP_PUTSP)
    /\ Len(call.text) = 3
    /\ output = call.text

\* C16: after an image of n <= 65536 - origin words is loaded at origin,
\* Memory[origin + i] is the byte-swapped i-th stored word for all i < n and
\* every cell outside [origin, origin + n) is as before; a second image over
\* the same cells leaves its own values.
C16_ImageLoaded ==
    (call.fn = "load" /\ call.j > 1) =>
        LET file   == argv[call.j - 1]
            origin == swap16(file.origin)
            n      == Len(file.words)
        IN  n <= 65536 - origin =>
              /\ \A i \in 0..(n - 1) :
                    MemGet(memory, origin + i) = swap16(file.words[i + 1])
              /\ \A a \in (DOMAIN memory \cup DOMAIN call.before) \ (origin..(origin + n - 1)) :
                    MemGet(memory, a) = MemGet(call.before, a)

====
